---- MODULE Spec2Model ----
(***************************************************************************)
(* Model of simulate_data.py: the New Brunswick energy IoT data simulator. *)
(* One worker thread per controller runs run_controller; main starts the   *)
(* workers, waits for the message limit or an interrupt, sets the stop    *)
(* flag and joins the (daemon) workers with a timeout.                     *)
(***************************************************************************)
EXTENDS Integers, Sequences, FiniteSets, TLC

(***************************************************************************)
(* Bounds of the model                                                     *)
(***************************************************************************)
\* most generate_data passes the workers make in all in the concurrent
\* specification
MaxPasses == 3

(***************************************************************************)
(* Configuration: CONTROLLERS (lines 56-102) and the command line          *)
(***************************************************************************)
CONTROLLERS ==
    << [project_id |-> "492e323a", baseline |-> 18, contract_threshold |-> 15,
        location |-> "Fredericton",
        ders |-> << [der_id |-> 11, type |-> "battery", nameplate_capacity |-> 10],
                    [der_id |-> 12, type |-> "solar",   nameplate_capacity |-> 8],
                    [der_id |-> 13, type |-> "battery", nameplate_capacity |-> 5] >>],
       [project_id |-> "0b2a26cc", baseline |-> 35, contract_threshold |-> 29,
        location |-> "Saint John",
        ders |-> << [der_id |-> 14, type |-> "battery", nameplate_capacity |-> 20],
                    [der_id |-> 15, type |-> "solar",   nameplate_capacity |-> 15] >>],
       [project_id |-> "8b434748", baseline |-> 22, contract_threshold |-> 18,
        location |-> "Moncton",
        ders |-> << [der_id |-> 16, type |-> "solar", nameplate_capacity |-> 10],
                    [der_id |-> 17, type |-> "ev",    nameplate_capacity |-> 11] >>] >>

\* range(len(CONTROLLERS)), counted from 1: worker i runs controller i
Workers == 1..Len(CONTROLLERS)

ProjectIds == {CONTROLLERS[i].project_id : i \in Workers}

\* the main thread, as owner of the lock or as accessor of the counter
MainThread == 0

\* values of --max-messages the model is run with (0 = unlimited)
MaxMessagesValues == {0, 2}

\* values of --violation / --multiplier (the multiplier in hundredths)
ViolationModes ==
    { [enabled |-> FALSE, multiplier |-> 150],
      [enabled |-> TRUE,  multiplier |-> 0] }

VARIABLES
    MAX_MESSAGES,      \* args.max_messages
    VIOLATION_MODE,    \* [enabled, multiplier]
    total_messages,    \* the shared message counter
    messages_lock,     \* holder of the lock: a thread, or -1 when free
    stop_event,        \* threading.Event: is_set()
    pc,                \* position of each worker in run_controller
    tmp,               \* the value of total_messages a worker loaded for +=
    mainPc,            \* position of main
    mainIdx,           \* loop index of main (thread start loop, join loop)
    passes,            \* generate_data calls begun by each worker
    pubPass,           \* the pass whose payload a worker last handed to publish
    connectRc,         \* result of client.connect (-1: not called yet)
    published,         \* number of publishes that returned rc == 0
    unlocked,          \* accesses of total_messages made without the lock
    cacheAccess,       \* for each project, the workers that touched its caches
    clock,             \* the clock: what datetime.datetime.now() returns
    utcShift,          \* seconds from local time to UTC
    ticks,             \* number of advances of the clock
    weather_cache,     \* project -> [last_update, pattern]
    appliance_events,  \* project -> [active, end_time, magnitude]
    last_appliance_check,  \* project -> time
    consumption_trends,    \* project -> [trend, next_change]
    readings_history,  \* project -> deque of [time, net]
    gen,               \* the pass in progress when passes run step by step
    payload,           \* the data each worker's last generate_data returned
    returned,          \* number of generate_data calls of a worker that returned
    pushed,            \* project -> every entry ever appended to its history
    weatherCalls,      \* the last two direct update_weather_pattern calls
    calls              \* the last two direct calls of the other engine functions

cfgVars == << MAX_MESSAGES, VIOLATION_MODE >>

cacheVars == << weather_cache, appliance_events, last_appliance_check,
                consumption_trends >>

clockVars == << clock, utcShift, ticks >>

passVars == << readings_history, payload, returned, pushed >>

genVars == << clockVars, cacheVars, passVars, gen, weatherCalls, calls >>

ctlVars == << total_messages, messages_lock, stop_event, pc, tmp, mainPc,
              mainIdx, pubPass, connectRc, published, unlocked >>

vars == << cfgVars, ctlVars, passes, cacheAccess, genVars >>

Free == -1

(***************************************************************************)
(* Arithmetic.  Python floats are modelled in fixed point: a quantity is   *)
(* an integer count of the unit named where it is computed, and a product  *)
(* is brought back to its unit by a division rounded to nearest.           *)
(***************************************************************************)
RoundDiv(a, b) == (a + (b \div 2)) \div b

Min(a, b) == IF a < b THEN a ELSE b

Max(a, b) == IF a > b THEN a ELSE b

(***************************************************************************)
(* The clock.  A time is a number of seconds since 00:00 local time of     *)
(* Monday 3 March 2025; the fields are those datetime exposes.             *)
(***************************************************************************)
Second(t) == t % 60

Minute(t) == (t \div 60) % 60

Hour(t) == (t \div 3600) % 24

\* datetime.weekday(): 0 = Monday
Weekday(t) == (t \div 86400) % 7

\* datetime.day, datetime.month: the model stays inside March
Day(t) == 3 + (t \div 86400)

Month(t) == 3

None == -1

(***************************************************************************)
(* get_nb_seasonal_factors (lines 127-257); table entries in hundredths    *)
(***************************************************************************)
base_hourly_factors ==
    [h \in 0..23 |->
        << 65, 55, 50, 45, 50, 70, 85, 110, 120, 105, 85, 80,
           75, 70, 65, 70, 85, 105, 120, 115, 100, 90, 80, 70 >>[h + 1]]

\* hours 6..16 are overridden at the weekend (lines 146-156)
weekend_adjustments ==
    [h \in 6..16 |-> << 70, 80, 90, 100, 105, 95, 90, 85, 80, 85, 95 >>[h - 5]]

hourly_factors(is_weekend) ==
    [h \in 0..23 |->
        IF is_weekend /\ h \in DOMAIN weekend_adjustments
        THEN weekend_adjustments[h] ELSE base_hourly_factors[h]]

\* location_factors.get(location, 1.0), in hundredths (lines 159-165)
location_factor(location) ==
    CASE location = "Fredericton" -> 100
      [] location = "Saint John"  -> 102
      [] location = "Moncton"     -> 98
      [] OTHER                    -> 100

\* usage_factor with next_hour one hour too far: (hour + 2) % 24 at line 179
usage_factor_NextHourOff(t, location) ==
    LET hour == Hour(t)
        minute == Minute(t)
        tab == hourly_factors(Weekday(t) >= 5)
        lf == location_factor(location)
        hour_factor == tab[hour] * lf
    IN  IF minute < 15 /\ hour > 0
        THEN RoundDiv(hour_factor * minute + tab[hour - 1] * lf * (15 - minute), 15)
        ELSE IF minute > 45
        THEN RoundDiv(hour_factor * (60 - minute)
                        + tab[(hour + 2) % 24] * lf * (minute - 45), 15)
        ELSE hour_factor

\* the usage factor, in 1/10000 (lines 167-184)
usage_factor(t, location) ==
    LET hour == Hour(t)
        minute == Minute(t)
        tab == hourly_factors(Weekday(t) >= 5)
        lf == location_factor(location)
        hour_factor == tab[hour] * lf
    IN  IF minute < 15 /\ hour > 0
        THEN RoundDiv(hour_factor * minute + tab[hour - 1] * lf * (15 - minute), 15)
        ELSE IF minute > 45
        THEN RoundDiv(hour_factor * (60 - minute)
                        + tab[(hour + 1) % 24] * lf * (minute - 45), 15)
        ELSE hour_factor

base_solar_factors ==
    [h \in 0..23 |->
        << 0, 0, 0, 0, 0, 0, 2, 15, 30, 45, 60, 70,
           75, 75, 65, 50, 35, 15, 2, 0, 0, 0, 0, 0 >>[h + 1]]

\* the blended solar factor, in 1/10000 (lines 198-209)
solar_blend(t) ==
    LET hour == Hour(t)
        minute == Minute(t)
        solar_factor == base_solar_factors[hour]
    IN  IF minute < 20 /\ hour > 0 /\ solar_factor > 0
        THEN 5 * (solar_factor * minute + base_solar_factors[hour - 1] * (20 - minute))
        ELSE IF minute > 40 /\ solar_factor > 0
        THEN 5 * (solar_factor * (60 - minute)
                    + base_solar_factors[(hour + 1) % 24] * (minute - 40))
        ELSE 100 * solar_factor

\* daily_weather = 0.7 + base_weather_factor * 0.6, in 1/10000 (lines 213-215)
daily_weather(t) ==
    LET day_seed == Day(t) + Month(t) * 31
        base_weather_factor == (day_seed * 9973) % 1000
    IN  7000 + base_weather_factor * 6

ev_connection_factors ==
    [h \in 0..23 |->
        << 85, 90, 90, 90, 80, 70, 50, 30, 20, 30, 35, 35,
           30, 30, 35, 35, 30, 25, 30, 45, 60, 75, 80, 85 >>[h + 1]]

\* hours 9..16 are overridden at the weekend (lines 227-235)
weekend_ev_adjustments ==
    [h \in 9..16 |-> << 40, 45, 45, 40, 40, 45, 45, 40 >>[h - 8]]

battery_discharge_factors ==
    [h \in 0..23 |->
        << 15, 10, 5, 5, 10, 20, 40, 55, 50, 30, 15, 10,
           5, 5, 10, 20, 35, 60, 70, 65, 45, 35, 25, 20 >>[h + 1]]

\* minutes of the day (60 * hour + minute) at which the float product
\* (hour + minute / 60.0) * 60 falls just below the integer, so that
\* int(factors['time_of_day'] * 60) is one minute short (line 413)
ShortMinutes ==
    { 100, 115, 123, 245, 246, 247, 490, 492, 494, 505, 507, 509, 965, 969,
      973, 980, 984, 988, 995, 999, 1003, 1010, 1014, 1018 }

\* the record returned at lines 249-257: usage and solar in 1/10000, ev and
\* battery in hundredths, time_of_day in minutes
get_nb_seasonal_factors(t, location) ==
    LET hour == Hour(t)
        is_weekend == Weekday(t) >= 5
    IN  [ usage |-> usage_factor(t, location),
          solar |-> RoundDiv(solar_blend(t) * daily_weather(t), 10000),
          ev |-> IF is_weekend /\ hour \in DOMAIN weekend_ev_adjustments
                 THEN weekend_ev_adjustments[hour] ELSE ev_connection_factors[hour],
          battery |-> battery_discharge_factors[hour],
          time_of_day |-> 60 * hour + Minute(t),
          is_weekend |-> is_weekend ]

(***************************************************************************)
(* Random draws.  A call of the random module yields one of the values of  *)
(* a small set; a record of such sets is handed to every operator that     *)
(* draws.  random() is in thousandths (0..999), gauss in thousandths.      *)
(***************************************************************************)
AllDraws ==
    [ interval |-> {300, 900},        \* randint(300, 900)
      gauss    |-> {300, 900, 1700},  \* gauss(1.0, 0.2)
      fluct    |-> {0, 999},          \* random() of line 285
      start    |-> {149, 150},        \* random() of line 308
      duration |-> {60, 300},         \* randint(60, 300)
      tier     |-> {0, 700, 950},     \* random() of line 315
      unif     |-> {0, 1000},         \* position inside a uniform(a, b) range
      minutes  |-> {10, 30} ]         \* randint(10, 30)

\* one value for every draw
FixedDraws ==
    [ interval |-> {600}, gauss |-> {900}, fluct |-> {500}, start |-> {149},
      duration |-> {60}, tier |-> {700}, unif |-> {1000}, minutes |-> {10} ]

\* uniform(a, b) at position u (thousandths of the range), same unit as a, b
Uniform(a, b, u) == a + RoundDiv((b - a) * u, 1000)

(***************************************************************************)
(* update_weather_pattern (lines 260-287).  cache.pattern is in            *)
(* thousandths; the returned value pattern * minor_fluctuation is in 1e-8. *)
(* The result is the set of outcomes over the draws.                       *)
(***************************************************************************)
\* NewPattern without the clamp of line 269: the gauss draw is used as drawn
NewPattern_Unclamped(cache, now, g) ==
    LET seconds_since == now - cache.last_update
        blend == Min(180, seconds_since)
    IN  IF cache.last_update # None
        THEN RoundDiv(cache.pattern * (180 - blend) + g * blend, 180)
        ELSE g

\* lines 269-280: the pattern stored by a refresh that drew g
NewPattern(cache, now, g) ==
    LET new_pattern == Min(1500, Max(600, g))
        seconds_since == now - cache.last_update
        blend == Min(180, seconds_since)      \* blend_ratio * 180
    IN  IF cache.last_update # None
        THEN RoundDiv(cache.pattern * (180 - blend) + new_pattern * blend, 180)
        ELSE new_pattern

\* WeatherRefreshDue with >= in place of >
WeatherRefreshDue_Inclusive(cache, now, r) ==
    cache.last_update = None \/ now - cache.last_update >= r

\* line 266: does the call refresh, when randint(300, 900) yields r
WeatherRefreshDue(cache, now, r) ==
    cache.last_update = None \/ now - cache.last_update > r

\* the outcomes [cache, target, fluct, ret]: the cache entry the call leaves,
\* the new_pattern a refresh drew (None when the call did not refresh), the
\* minor_fluctuation and the returned value
update_weather_pattern(cache, now, D) ==
    LET due == IF cache.last_update = None THEN {TRUE}
               ELSE { WeatherRefreshDue(cache, now, r) : r \in D.interval }
        caches == UNION { IF d THEN { [cache |-> [last_update |-> now,
                                                  pattern |-> NewPattern(cache, now, g)],
                                       target |-> Min(1500, Max(600, g))]
                                      : g \in D.gauss }
                               ELSE { [cache |-> cache, target |-> None] }
                          : d \in due }
    IN  { [cache |-> c.cache, target |-> c.target, fluct |-> 98000 + 4 * u,
           ret |-> c.cache.pattern * (98000 + 4 * u)]
          : c \in caches, u \in D.fluct }

(***************************************************************************)
(* check_appliance_events (lines 290-328); magnitudes in hundredths        *)
(***************************************************************************)
EventMagnitude(r, u) ==
    IF r < 700 THEN Uniform(110, 130, u)
    ELSE IF r < 950 THEN Uniform(140, 180, u)
    ELSE Uniform(180, 250, u)

\* check_appliance_events without the rate limit of lines 296-298: every
\* call makes the full check
check_appliance_events_Unlimited(event, last_check, now, D) ==
    LET cleared == IF event.active /\ event.end_time < now
                   THEN [event EXCEPT !.active = FALSE] ELSE event
        events == IF cleared.active THEN {cleared}
                  ELSE UNION { IF s < 150
                               THEN { [active |-> TRUE, end_time |-> now + d,
                                       magnitude |-> EventMagnitude(r, u)]
                                      : d \in D.duration, r \in D.tier,
                                        u \in D.unif }
                               ELSE {cleared} : s \in D.start }
    IN  { [event |-> e, last_check |-> now,
           ret |-> IF e.active THEN e.magnitude ELSE 100] : e \in events }

check_appliance_events(event, last_check, now, D) ==
    IF now - last_check < 30
    THEN { [event |-> event, last_check |-> last_check,
            ret |-> IF event.active /\ event.end_time > now
                    THEN event.magnitude ELSE 100] }
    ELSE LET cleared == IF event.active /\ event.end_time < now
                        THEN [event EXCEPT !.active = FALSE] ELSE event
             events == IF cleared.active THEN {cleared}
                       ELSE UNION { IF s < 150
                                    THEN { [active |-> TRUE, end_time |-> now + d,
                                            magnitude |-> EventMagnitude(r, u)]
                                           : d \in D.duration, r \in D.tier,
                                             u \in D.unif }
                                    ELSE {cleared} : s \in D.start }
         IN  { [event |-> e, last_check |-> now,
                ret |-> IF e.active THEN e.magnitude ELSE 100] : e \in events }

(***************************************************************************)
(* update_consumption_trend (lines 331-349); the trend in 1/10000          *)
(***************************************************************************)
\* update_consumption_trend storing the new target itself where line 347
\* moves 30% of the way to it
update_consumption_trend_Snap(trend, now, D) ==
    IF now >= trend.next_change
    THEN { [trend |-> [trend |-> Uniform(9200, 10800, u),
                       next_change |-> now + 60 * m],
            target |-> Uniform(9200, 10800, u),
            ret |-> Uniform(9200, 10800, u)]
           : m \in D.minutes, u \in D.unif }
    ELSE { [trend |-> trend, target |-> None, ret |-> trend.trend] }

\* the outcomes [trend, target, ret]: the cache entry the call leaves, the
\* new_target a change drew (None when the call changed nothing) and the
\* returned value
update_consumption_trend(trend, now, D) ==
    IF now >= trend.next_change
    THEN { [trend |-> [trend |-> RoundDiv(trend.trend * 7
                                           + Uniform(9200, 10800, u) * 3, 10),
                       next_change |-> now + 60 * m],
            target |-> Uniform(9200, 10800, u),
            ret |-> RoundDiv(trend.trend * 7 + Uniform(9200, 10800, u) * 3, 10)]
           : m \in D.minutes, u \in D.unif }
    ELSE { [trend |-> trend, target |-> None, ret |-> trend.trend] }

(***************************************************************************)
(* DER output generators; outputs in hundredths of a kW (round(x, 2))      *)
(***************************************************************************)
Location(controller_index) == CONTROLLERS[controller_index].location

\* generate_solar_output (lines 352-374): the set of [out, cache]
generate_solar_output(capacity, controller_index, cache, now, D) ==
    LET factors == get_nb_seasonal_factors(now, Location(controller_index))
        base_output == capacity * factors.solar                 \* 1e-4 kW
        noise == 97 + (Second(now) % 6)                          \* hundredths
    IN  IF factors.solar <= 0
        THEN { [out |-> 0, cache |-> cache] }
        ELSE { [out |-> RoundDiv(Max(0, RoundDiv(base_output
                                                   * RoundDiv(w.ret, 100000), 1000)
                                        * noise), 10000),
                cache |-> w.cache]
               : w \in update_weather_pattern(cache, now, D) }

\* generate_battery_output without the deep-discharge protection of lines
\* 384-385
generate_battery_output_NoProtection(capacity, current_soc, controller_index, now) ==
    LET factors == get_nb_seasonal_factors(now, Location(controller_index))
        soc_factor == 5000 + 5 * current_soc
        discharge_rate == factors.battery * soc_factor
        minute_variation == 95 + (Minute(now) % 10)
        output == capacity * discharge_rate * minute_variation
    IN  RoundDiv(Min(output, capacity * 80000000), 1000000)

\* generate_battery_output (lines 377-402); current_soc in tenths of a percent
generate_battery_output(capacity, current_soc, controller_index, now) ==
    LET factors == get_nb_seasonal_factors(now, Location(controller_index))
        soc_factor == 5000 + 5 * current_soc                    \* 1e-4
        discharge_rate == factors.battery * soc_factor          \* 1e-6
        minute_variation == 95 + (Minute(now) % 10)             \* hundredths
        output == capacity * discharge_rate * minute_variation  \* 1e-8 kW
    IN  IF current_soc < 100 THEN 0
        ELSE RoundDiv(Min(output, capacity * 80000000), 1000000)

\* rand_val of generate_ev_output (lines 413-416), in thousandths
ev_rand_val(controller_index, now) ==
    LET factors == get_nb_seasonal_factors(now, Location(controller_index))
        minute_of_day == IF factors.time_of_day \in ShortMinutes
                         THEN factors.time_of_day - 1 ELSE factors.time_of_day
        rand_seed == minute_of_day + Day(now) * 1440
    IN  (rand_seed * 9973) % 1000

\* is_connected of generate_ev_output (line 418)
ev_is_connected(controller_index, now) ==
    ev_rand_val(controller_index, now)
       < get_nb_seasonal_factors(now, Location(controller_index)).ev * 10

\* generate_ev_output with peak bands that end at 09:00 and 20:00 where line
\* 424 tests 7 <= hour <= 9 or 17 <= hour <= 20
generate_ev_output_ExclusiveBands(capacity, controller_index, now) ==
    LET rand_val == ev_rand_val(controller_index, now)
        v2g_factor == IF (7 <= Hour(now) /\ Hour(now) < 9)
                          \/ (17 <= Hour(now) /\ Hour(now) < 20)
                      THEN 15000 + 10 * rand_val
                      ELSE 5000 + 5 * rand_val
    IN  IF ~ev_is_connected(controller_index, now) THEN 0
        ELSE RoundDiv(capacity * v2g_factor, 1000)

\* generate_ev_output (lines 405-431)
generate_ev_output(capacity, controller_index, now) ==
    LET rand_val == ev_rand_val(controller_index, now)         \* thousandths
        v2g_factor == IF (7 <= Hour(now) /\ Hour(now) <= 9)
                          \/ (17 <= Hour(now) /\ Hour(now) <= 20)
                      THEN 15000 + 10 * rand_val                \* 1e-5
                      ELSE 5000 + 5 * rand_val
    IN  IF ~ev_is_connected(controller_index, now) THEN 0
        ELSE RoundDiv(capacity * v2g_factor, 1000)

(***************************************************************************)
(* calculate_power_meter (lines 434-465): the set of outcomes              *)
(* [pm, trend, event, last_check, raised] and the values of the locals     *)
(* trend_factor, event_factor, adjusted_load (1e-3 kW), noise_factor and   *)
(* effective_der_output (1e-3 kW); der_output and pm in hundredths of a    *)
(* kW, the multiplier in hundredths.  A zero multiplier raises             *)
(* ZeroDivisionError at line 461, after the caches were updated.           *)
(***************************************************************************)
\* calculate_power_meter with the DER output multiplied by the violation
\* multiplier where line 461 divides by it
calculate_power_meter_Multiplied(base_load, der_output, controller_index, apply_violation, multiplier, trend, event, last_check, now, D) ==
    LET factors == get_nb_seasonal_factors(now, Location(controller_index))
        load0 == RoundDiv(base_load * factors.usage, 10)
        noise_seed == Second(now) + Minute(now) * 60
        noise_factor == 98 + ((noise_seed * 3) % 5)
    IN  { LET load1 == RoundDiv(load0 * tr.ret, 10000)
              load2 == RoundDiv(load1 * ev.ret, 100)
              raised == apply_violation /\ multiplier = 0
              effective_der_output ==
                  IF raised THEN 0
                  ELSE IF apply_violation
                  THEN RoundDiv(der_output * multiplier, 10)
                  ELSE der_output * 10
          IN  [ pm |-> RoundDiv(Max(0, RoundDiv(load2 * noise_factor, 100)
                                        - effective_der_output), 10),
                trend |-> tr.trend, event |-> ev.event,
                last_check |-> ev.last_check, raised |-> raised,
                trend_factor |-> tr.ret, event_factor |-> ev.ret,
                adjusted_load |-> load2, noise_factor |-> noise_factor,
                effective_der_output |-> effective_der_output ]
          : tr \in update_consumption_trend(trend, now, D),
            ev \in check_appliance_events(event, last_check, now, D) }

calculate_power_meter(base_load, der_output, controller_index, apply_violation, multiplier, trend, event, last_check, now, D) ==
    LET factors == get_nb_seasonal_factors(now, Location(controller_index))
        load0 == RoundDiv(base_load * factors.usage, 10)         \* 1e-3 kW
        noise_seed == Second(now) + Minute(now) * 60
        noise_factor == 98 + ((noise_seed * 3) % 5)              \* hundredths
    IN  { LET load1 == RoundDiv(load0 * tr.ret, 10000)
              load2 == RoundDiv(load1 * ev.ret, 100)
              raised == apply_violation /\ multiplier = 0
              effective_der_output ==
                  IF raised THEN 0
                  ELSE IF apply_violation
                  THEN RoundDiv(der_output * 1000, multiplier)   \* 1e-3 kW
                  ELSE der_output * 10
          IN  [ pm |-> RoundDiv(Max(0, RoundDiv(load2 * noise_factor, 100)
                                        - effective_der_output), 10),
                trend |-> tr.trend, event |-> ev.event,
                last_check |-> ev.last_check, raised |-> raised,
                trend_factor |-> tr.ret, event_factor |-> ev.ret,
                adjusted_load |-> load2, noise_factor |-> noise_factor,
                effective_der_output |-> effective_der_output ]
          : tr \in update_consumption_trend(trend, now, D),
            ev \in check_appliance_events(event, last_check, now, D) }

(***************************************************************************)
(* generate_data (lines 468-568).  A pass is the record                    *)
(*   [idx, phase, k, current_time, apply_violation, current_soc,           *)
(*    current_output, total_der_output, data, weather, event, last_check,  *)
(*    trend, raised, reads, invoked, slow]                                 *)
(* k is the position in controller['ders']; weather, event, last_check     *)
(* and trend are the cache entries of the pass's project; reads is the set *)
(* of instants at which the pass has read the clock; invoked counts the    *)
(* calls the pass has made of update_weather_pattern,                      *)
(* check_appliance_events and update_consumption_trend; slow holds, for    *)
(* every record of the pass, the trend and event factors it was computed   *)
(* from.                                                                   *)
(***************************************************************************)
Ders(controller_index) == CONTROLLERS[controller_index].ders

\* lines 493-505
base_soc(hour) ==
    IF hour < 6 THEN 65 + hour * 3
    ELSE IF hour < 9 THEN 80 - (hour - 6) * 6
    ELSE IF hour < 15 THEN 62 + (hour - 9) * 3
    ELSE IF hour < 21 THEN 80 - (hour - 15) * 5
    ELSE 50 + (hour - 21) * 3

\* lines 483-516: current_soc in tenths of a percent, from the UTC time
current_soc_of(der, current_time) ==
    LET day_seed == Day(current_time) + Month(current_time) * 31
        controller_offset == ((der.der_id + day_seed) % 10) - 5
        minute_variation == Minute(current_time) - 30           \* tenths
    IN  IF der.type = "battery"
        THEN Max(100, Min(950, 10 * (base_soc(Hour(current_time)) + controller_offset)
                                + minute_variation))
        ELSE 0

\* round(current_soc): Python rounds a half to the even integer
RoundSoc(soc) ==
    LET q == soc \div 10
        r == soc % 10
    IN  IF r > 5 \/ (r = 5 /\ q % 2 = 1) THEN q + 1 ELSE q

IdlePass(controller_index) ==
    [ idx |-> controller_index, phase |-> "idle", k |-> 1, current_time |-> 0,
      apply_violation |-> FALSE, current_soc |-> 0, current_output |-> 0,
      total_der_output |-> 0, data |-> << >>,
      weather |-> [last_update |-> None, pattern |-> 1000],
      event |-> [active |-> FALSE, end_time |-> None, magnitude |-> 100],
      last_check |-> 0, trend |-> [trend |-> 10000, next_change |-> 0],
      raised |-> FALSE, reads |-> {},
      invoked |-> [weather |-> 0, events |-> 0, trend |-> 0], slow |-> << >> ]

\* lines 470-479: the start of a pass at instant now; current_time is the
\* UTC reading of that instant
BeginPass(controller_index, now, utc_shift, apply_violation, weather, event, last_check, trend) ==
    [ idx |-> controller_index, phase |-> "output", k |-> 1,
      current_time |-> now + utc_shift, apply_violation |-> apply_violation,
      current_soc |-> 0, current_output |-> 0, total_der_output |-> 0,
      data |-> << >>, weather |-> weather, event |-> event,
      last_check |-> last_check, trend |-> trend, raised |-> FALSE,
      reads |-> {now},
      invoked |-> [weather |-> 0, events |-> 0, trend |-> 0], slow |-> << >> ]

\* lines 481-531 for the DER at position k: the SOC and the generator call
OutputStep(ps, now, D) ==
    LET der == Ders(ps.idx)[ps.k]
        capacity == der.nameplate_capacity
        soc == current_soc_of(der, ps.current_time)
        outs == IF der.type = "solar"
                THEN generate_solar_output(capacity, ps.idx, ps.weather, now, D)
                ELSE IF der.type = "battery"
                THEN { [out |-> generate_battery_output(capacity, soc, ps.idx, now),
                        cache |-> ps.weather] }
                ELSE { [out |-> generate_ev_output(capacity, ps.idx, now),
                        cache |-> ps.weather] }
        \* generate_solar_output calls update_weather_pattern at line 363
        weather_calls ==
            IF der.type = "solar"
                 /\ get_nb_seasonal_factors(now, Location(ps.idx)).solar > 0
            THEN 1 ELSE 0
    IN  { [ps EXCEPT !.phase = "meter", !.current_soc = soc,
                     !.current_output = o.out,
                     !.total_der_output = @ + o.out,
                     !.weather = o.cache, !.reads = @ \cup {now},
                     !.invoked.weather = @ + weather_calls]
          : o \in outs }

\* lines 540-556
DerRecord(controller_index, der, current_time, current_output, power_meter, current_soc) ==
    [ der_id |-> der.der_id, is_online |-> TRUE, timestamp |-> current_time,
      current_output |-> current_output,
      power_meter_measurement |-> power_meter,
      baseline |-> CONTROLLERS[controller_index].baseline,
      contract_threshold |-> CONTROLLERS[controller_index].contract_threshold,
      units |-> "kW", project_id |-> CONTROLLERS[controller_index].project_id,
      is_standalone |-> FALSE, current_soc |-> RoundSoc(current_soc),
      type |-> der.type, nameplate_capacity |-> der.nameplate_capacity ]

\* lines 533-557 for the DER at position k: the meter value and the record
MeterStep(ps, now, multiplier, D) ==
    LET der == Ders(ps.idx)[ps.k]
        base_load == CONTROLLERS[ps.idx].baseline
    IN  { IF m.raised
          THEN [ps EXCEPT !.phase = "idle", !.raised = TRUE, !.trend = m.trend,
                          !.event = m.event, !.last_check = m.last_check,
                          !.reads = @ \cup {now},
                          !.invoked.trend = @ + 1, !.invoked.events = @ + 1]
          ELSE [ps EXCEPT !.phase = IF ps.k < Len(Ders(ps.idx))
                                    THEN "output" ELSE "end",
                          !.k = @ + 1,
                          !.data = Append(@, DerRecord(ps.idx, der, ps.current_time,
                                                       ps.current_output, m.pm,
                                                       ps.current_soc)),
                          !.trend = m.trend, !.event = m.event,
                          !.last_check = m.last_check,
                          !.reads = @ \cup {now},
                          !.invoked.trend = @ + 1, !.invoked.events = @ + 1,
                          !.slow = Append(@, [trend |-> m.trend_factor,
                                              event |-> m.event_factor])]
          : m \in calculate_power_meter(base_load, ps.current_output, ps.idx,
                                        ps.apply_violation, multiplier, ps.trend,
                                        ps.event, ps.last_check, now, D) }

\* lines 561-562: sum of power_meter_measurement - current_output over data
RECURSIVE net_consumption(_)
net_consumption(data) ==
    IF data = << >> THEN 0
    ELSE data[1].power_meter_measurement - data[1].current_output
         + net_consumption(Tail(data))

\* collections.deque(maxlen=300) (lines 107-108)
HistoryMaxLen == 300

\* DequeAppend for a deque without maxlen
DequeAppend_Unbounded(d, x) == Append(d, x)

\* deque.append with maxlen: a full deque drops its oldest entry
DequeAppend(d, x) ==
    IF Len(d) >= HistoryMaxLen THEN Append(Tail(d), x) ELSE Append(d, x)

\* HistoryEntry with the raw meter readings in place of the net consumption
HistoryEntry_RawMeter(ps) ==
    [ time |-> ps.current_time,
      net |-> net_consumption(ps.data) + ps.total_der_output ]

\* lines 565-566: the entry a completed pass appends to readings_history
HistoryEntry(ps) ==
    [ time |-> ps.current_time, net |-> net_consumption(ps.data) ]

\* the whole pass with every clock reading at the same instant: the set of
\* passes at phase "end" (returning) or with raised set
RECURSIVE RunDers(_, _, _, _)
RunDers(ps, now, multiplier, D) ==
    IF ps.phase = "output"
    THEN UNION { RunDers(q, now, multiplier, D) : q \in OutputStep(ps, now, D) }
    ELSE IF ps.phase = "meter"
    THEN UNION { RunDers(q, now, multiplier, D)
                 : q \in MeterStep(ps, now, multiplier, D) }
    ELSE {ps}

(***************************************************************************)
(* Accesses of the shared counter.  An access by thread t is recorded in   *)
(* unlocked when t does not hold messages_lock at that moment.             *)
(***************************************************************************)
Access(t, kind) ==
    IF messages_lock = t THEN unlocked ELSE unlocked \cup {<<t, kind>>}

\* ProjectOf reading the module-level project_id, which the loop of lines
\* 117-124 leaves at the last controller, in place of the local one
ProjectOf_Global(controller_index) == CONTROLLERS[Len(CONTROLLERS)].project_id

\* project whose cache entries generate_data(controller_index) uses (line 471)
ProjectOf(controller_index) == CONTROLLERS[controller_index].project_id

(***************************************************************************)
(* run_controller (lines 579-615), one action per step of worker w         *)
(***************************************************************************)
Alive(w) == mainPc # "exited" /\ pc[w] \notin {"idle", "done"}

\* client.connect: a nonzero result makes the worker return (lines 585-587)
Connect(w) ==
    /\ Alive(w) /\ pc[w] = "connect"
    /\ \E rc \in {0, 1} :
          /\ connectRc' = [connectRc EXCEPT ![w] = rc]
          /\ pc' = [pc EXCEPT ![w] = IF rc # 0 THEN "done" ELSE "loop"]
    /\ UNCHANGED << cfgVars, genVars, total_messages, messages_lock, stop_event, tmp,
                    mainPc, mainIdx, passes, pubPass, published,
                    unlocked, cacheAccess >>

\* the loop test after time.sleep(randint(1, 5)) (lines 607-608, none before
\* the first test), should_continue: with messages_lock (line 573)
ScAcquire(w) ==
    /\ Alive(w) /\ pc[w] = "loop"
    /\ messages_lock = Free
    /\ messages_lock' = w
    /\ pc' = [pc EXCEPT ![w] = "sc_read"]
    /\ UNCHANGED << cfgVars, genVars, total_messages, stop_event, tmp, mainPc, mainIdx,
                    passes, pubPass, connectRc, published, unlocked,
                    cacheAccess >>

\* should_continue: the limit test and the release of the lock (lines 574-575)
ScRead(w) ==
    /\ Alive(w) /\ pc[w] = "sc_read"
    /\ unlocked' = Access(w, "read")
    /\ messages_lock' = Free
    /\ pc' = [pc EXCEPT ![w] =
                IF MAX_MESSAGES > 0 /\ total_messages >= MAX_MESSAGES
                THEN "finally" ELSE "sc_stop"]
    /\ UNCHANGED << cfgVars, genVars, total_messages, stop_event, tmp, mainPc, mainIdx,
                    passes, pubPass, connectRc, published,
                    cacheAccess >>

\* should_continue: return not stop_event.is_set() (line 576)
ScStop(w) ==
    /\ Alive(w) /\ pc[w] = "sc_stop"
    /\ pc' = [pc EXCEPT ![w] = IF stop_event THEN "finally" ELSE "generate"]
    /\ UNCHANGED << cfgVars, genVars, total_messages, messages_lock, stop_event, tmp,
                    mainPc, mainIdx, passes, pubPass, connectRc,
                    published, unlocked, cacheAccess >>

\* The effect of a pass q that has ended (phase "end", the return at line
\* 568) or raised: the cache entries of its project, and for a pass that
\* returns the history entry of lines 565-566 and the returned data
StorePass(q) ==
    LET p == ProjectOf(q.idx)
    IN  /\ weather_cache' = [weather_cache EXCEPT ![p] = q.weather]
        /\ appliance_events' = [appliance_events EXCEPT ![p] = q.event]
        /\ last_appliance_check' = [last_appliance_check EXCEPT ![p] = q.last_check]
        /\ consumption_trends' = [consumption_trends EXCEPT ![p] = q.trend]
        /\ IF q.raised
           THEN UNCHANGED passVars
           ELSE /\ readings_history' =
                      [readings_history EXCEPT ![p] = DequeAppend(@, HistoryEntry(q))]
                /\ pushed' = [pushed EXCEPT ![p] = Append(@, HistoryEntry(q))]
                /\ payload' = [payload EXCEPT ![q.idx] = q.data]
                /\ returned' = [returned EXCEPT ![q.idx] = @ + 1]

\* generate_data(controller_index) called at the instant of the clock (lines 468-479)
StartPass(controller_index) ==
    LET p == ProjectOf(controller_index)
    IN  BeginPass(controller_index, clock, utcShift, VIOLATION_MODE.enabled,
                  weather_cache[p], appliance_events[p],
                  last_appliance_check[p], consumption_trends[p])

\* the passes made so far by the workers 1..n
RECURSIVE PassesMade(_)
PassesMade(n) == IF n = 0 THEN 0 ELSE PassesMade(n - 1) + passes[n]

\* generate_data(controller_index) as one step, the draws taken from D
GenerateData(controller_index, D) ==
    \E q \in RunDers(StartPass(controller_index), clock,
                     VIOLATION_MODE.multiplier, D) :
        /\ StorePass(q)
        /\ passes' = [passes EXCEPT ![controller_index] = @ + 1]
        /\ cacheAccess' = [cacheAccess EXCEPT ![ProjectOf(q.idx)] =
                              @ \cup {controller_index}]

\* Generate without the finally clause: an exception ends the thread at once
Generate_NoFinally(w) ==
    /\ Alive(w) /\ pc[w] = "generate"
    /\ PassesMade(Len(CONTROLLERS)) < MaxPasses
    /\ GenerateData(w, FixedDraws)
    /\ pc' = [pc EXCEPT ![w] = IF returned'[w] = returned[w]
                               THEN "done" ELSE "publish"]
    /\ UNCHANGED << cfgVars, clockVars, gen, weatherCalls, calls, total_messages,
                    messages_lock, stop_event, tmp, mainPc, mainIdx, pubPass,
                    connectRc, published, unlocked >>

\* data = generate_data(controller_index) (line 594); an exception leaves the
\* loop for the except and finally clauses (lines 610-615)
Generate(w) ==
    /\ Alive(w) /\ pc[w] = "generate"
    /\ PassesMade(Len(CONTROLLERS)) < MaxPasses
    /\ GenerateData(w, FixedDraws)
    /\ pc' = [pc EXCEPT ![w] = IF returned'[w] = returned[w]
                               THEN "finally" ELSE "publish"]
    /\ UNCHANGED << cfgVars, clockVars, gen, weatherCalls, calls, total_messages,
                    messages_lock, stop_event, tmp, mainPc, mainIdx, pubPass,
                    connectRc, published, unlocked >>

\* Publish with a retry: after a failure the same payload is published again
Publish_Retry(w) ==
    /\ Alive(w) /\ pc[w] = "publish"
    /\ \E rc \in {0, 1} :
          /\ published' = IF rc = 0 THEN published + 1 ELSE published
          /\ pc' = [pc EXCEPT ![w] = IF rc = 0 THEN "inc_lock" ELSE "publish"]
    /\ pubPass' = [pubPass EXCEPT ![w] = passes[w]]
    /\ UNCHANGED << cfgVars, genVars, total_messages, messages_lock, stop_event,
                    tmp, mainPc, mainIdx, passes, connectRc, unlocked,
                    cacheAccess >>

\* client.publish(topic, payload).rc (line 598)
Publish(w) ==
    /\ Alive(w) /\ pc[w] = "publish"
    /\ \E rc \in {0, 1} :
          /\ published' = IF rc = 0 THEN published + 1 ELSE published
          /\ pc' = [pc EXCEPT ![w] = IF rc = 0 THEN "inc_lock" ELSE "loop"]
    /\ pubPass' = [pubPass EXCEPT ![w] = passes[w]]
    /\ UNCHANGED << cfgVars, genVars, total_messages, messages_lock, stop_event, tmp,
                    mainPc, mainIdx, passes, connectRc, unlocked, cacheAccess >>

\* IncAcquire with the lock forgotten: the increment is made without it
IncAcquire_NoLock(w) ==
    /\ Alive(w) /\ pc[w] = "inc_lock"
    /\ pc' = [pc EXCEPT ![w] = "inc_read"]
    /\ UNCHANGED << cfgVars, genVars, total_messages, messages_lock, stop_event,
                    tmp, mainPc, mainIdx, passes, pubPass, connectRc, published,
                    unlocked, cacheAccess >>

\* with messages_lock (line 599)
IncAcquire(w) ==
    /\ Alive(w) /\ pc[w] = "inc_lock"
    /\ messages_lock = Free
    /\ messages_lock' = w
    /\ pc' = [pc EXCEPT ![w] = "inc_read"]
    /\ UNCHANGED << cfgVars, genVars, total_messages, stop_event, tmp, mainPc, mainIdx,
                    passes, pubPass, connectRc, published, unlocked,
                    cacheAccess >>

\* total_messages += 1, the load of the old value (line 601)
IncRead(w) ==
    /\ Alive(w) /\ pc[w] = "inc_read"
    /\ tmp' = [tmp EXCEPT ![w] = total_messages]
    /\ unlocked' = Access(w, "read")
    /\ pc' = [pc EXCEPT ![w] = "inc_write"]
    /\ UNCHANGED << cfgVars, genVars, total_messages, messages_lock, stop_event, mainPc,
                    mainIdx, passes, pubPass, connectRc, published,
                    cacheAccess >>

\* total_messages += 1, the store; the progress print; the release of the lock
\* (lines 601-604)
IncWrite(w) ==
    /\ Alive(w) /\ pc[w] = "inc_write"
    /\ total_messages' = tmp[w] + 1
    /\ unlocked' = Access(w, "write")
    /\ messages_lock' = IF messages_lock = w THEN Free ELSE messages_lock
    /\ tmp' = [tmp EXCEPT ![w] = 0]
    /\ pc' = [pc EXCEPT ![w] = "loop"]
    /\ UNCHANGED << cfgVars, genVars, stop_event, mainPc, mainIdx, passes, pubPass,
                    connectRc, published, cacheAccess >>

\* finally: client.loop_stop(); client.disconnect() (lines 612-615)
Finally(w) ==
    /\ Alive(w) /\ pc[w] = "finally"
    /\ pc' = [pc EXCEPT ![w] = "done"]
    /\ UNCHANGED << cfgVars, genVars, total_messages, messages_lock, stop_event, tmp,
                    mainPc, mainIdx, passes, pubPass, connectRc,
                    published, unlocked, cacheAccess >>

(***************************************************************************)
(* main (lines 618-653)                                                    *)
(***************************************************************************)
\* thread.start() for the next controller (lines 627-634)
MainStart ==
    /\ mainPc = "start"
    /\ pc' = [pc EXCEPT ![mainIdx] = "connect"]
    /\ IF mainIdx < Len(CONTROLLERS)
       THEN /\ mainIdx' = mainIdx + 1
            /\ mainPc' = mainPc
       ELSE /\ mainIdx' = 1
            /\ mainPc' = IF MAX_MESSAGES > 0 THEN "poll" ELSE "forever"
    /\ UNCHANGED << cfgVars, genVars, total_messages, messages_lock, stop_event, tmp,
                    passes, pubPass, connectRc, published, unlocked,
                    cacheAccess >>

\* while total_messages < MAX_MESSAGES: time.sleep(0.1); then stop_event.set()
\* (lines 638-641)
MainPoll ==
    /\ mainPc = "poll"
    /\ unlocked' = Access(MainThread, "read")
    /\ IF total_messages < MAX_MESSAGES
       THEN UNCHANGED << stop_event, mainPc >>
       ELSE /\ stop_event' = TRUE
            /\ mainPc' = "join"
    /\ UNCHANGED << cfgVars, genVars, total_messages, messages_lock, pc, tmp, mainIdx,
                    passes, pubPass, connectRc, published, cacheAccess >>

\* KeyboardInterrupt inside the try block (lines 647-649)
MainInterrupt ==
    /\ mainPc \in {"poll", "forever"}
    /\ stop_event' = TRUE
    /\ mainPc' = "join"
    /\ UNCHANGED << cfgVars, genVars, total_messages, messages_lock, pc, tmp, mainIdx,
                    passes, pubPass, connectRc, published, unlocked,
                    cacheAccess >>

\* thread.join(timeout=5): returns when the thread has ended or after 5 s
\* (lines 651-652); after the last join main returns and the process ends,
\* which ends the daemon threads where they are
MainJoin ==
    /\ mainPc = "join"
    /\ \E timedOut \in BOOLEAN :
          IF timedOut THEN pc[mainIdx] # "done" ELSE pc[mainIdx] = "done"
    /\ IF mainIdx < Len(CONTROLLERS)
       THEN /\ mainIdx' = mainIdx + 1
            /\ mainPc' = mainPc
       ELSE /\ mainIdx' = mainIdx
            /\ mainPc' = "exited"
    /\ UNCHANGED << cfgVars, genVars, total_messages, messages_lock, stop_event, pc,
                    tmp, passes, pubPass, connectRc, published,
                    unlocked, cacheAccess >>

\* start instants: Monday 12:59:59 and Saturday 06:59:59
StartTimes == {46799, 457199}

\* the instant the concurrent specification runs at: Monday 13:00:00
ConcurrentStartTimes == {46800}

\* offsets of UTC from the local clock: none, and Atlantic Standard Time
UtcShifts == {0, 14400}

\* the state after the module has been imported (lines 40-50): nothing started
InitControl ==
    /\ total_messages = 0
    /\ messages_lock = Free
    /\ stop_event = FALSE
    /\ pc = [w \in Workers |-> "idle"]
    /\ tmp = [w \in Workers |-> 0]
    /\ mainPc = "start"
    /\ mainIdx = 1
    /\ passes = [w \in Workers |-> 0]
    /\ pubPass = [w \in Workers |-> 0]
    /\ connectRc = [w \in Workers |-> -1]
    /\ published = 0
    /\ unlocked = {}
    /\ cacheAccess = [p \in ProjectIds |-> {}]

\* the caches and histories after the module has been imported at instant t0
\* (lines 104-124)
InitData(t0, shift, controller_index) ==
    /\ clock = t0
    /\ utcShift = shift
    /\ ticks = 0
    /\ weather_cache = [p \in ProjectIds |-> [last_update |-> None, pattern |-> 1000]]
    /\ appliance_events =
          [p \in ProjectIds |-> [active |-> FALSE, end_time |-> None, magnitude |-> 100]]
    /\ last_appliance_check = [p \in ProjectIds |-> t0]
    /\ consumption_trends = [p \in ProjectIds |-> [trend |-> 10000, next_change |-> t0]]
    /\ readings_history = [p \in ProjectIds |-> << >>]
    /\ gen = IdlePass(controller_index)
    /\ payload = [w \in Workers |-> << >>]
    /\ returned = [w \in Workers |-> 0]
    /\ pushed = [p \in ProjectIds |-> << >>]
    /\ weatherCalls = << >>
    /\ calls = << >>

Init ==
    /\ MAX_MESSAGES \in MaxMessagesValues
    /\ VIOLATION_MODE \in ViolationModes
    /\ InitControl
    /\ \E t0 \in ConcurrentStartTimes : InitData(t0, 0, 1)

Worker(w) ==
    \/ Connect(w) \/ ScAcquire(w) \/ ScRead(w) \/ ScStop(w) \/ Generate(w)
    \/ Publish(w) \/ IncAcquire(w) \/ IncRead(w) \/ IncWrite(w) \/ Finally(w)

Next ==
    \/ \E w \in Workers : Worker(w)
    \/ MainStart \/ MainPoll \/ MainInterrupt \/ MainJoin

Spec == Init /\ [][Next]_vars

(***************************************************************************)
(* generate_data step by step: the clock may advance between the steps of  *)
(* one pass.  One controller, chosen at the start, runs its passes.        *)
(***************************************************************************)
\* most passes of the step-by-step specification
MaxGenPasses == 2

\* most advances of the clock
MaxTicks == 1

\* seconds by which the clock advances between two steps of a pass
GenTickSteps == {1}

ctlFrame == << cfgVars, ctlVars, cacheAccess >>

\* lines 470-479: the pass begins and reads the clock for current_time
GenBegin ==
    /\ gen.phase = "idle" /\ ~gen.raised
    /\ passes[gen.idx] < MaxGenPasses
    /\ gen' = StartPass(gen.idx)
    /\ passes' = [passes EXCEPT ![gen.idx] = @ + 1]
    /\ UNCHANGED << ctlFrame, clockVars, cacheVars, passVars, weatherCalls, calls >>

\* lines 481-531: the SOC and the generator call of the next DER
GenOutput ==
    /\ gen.phase = "output"
    /\ \E q \in OutputStep(gen, clock, AllDraws) :
          /\ gen' = q
          /\ weather_cache' = [weather_cache EXCEPT ![ProjectOf(q.idx)] = q.weather]
    /\ UNCHANGED << ctlFrame, clockVars, passes, appliance_events,
                    last_appliance_check, consumption_trends, passVars,
                    weatherCalls, calls >>

\* lines 533-557: calculate_power_meter and the record of the DER; a zero
\* multiplier raises and ends the pass
GenMeter ==
    /\ gen.phase = "meter"
    /\ \E q \in MeterStep(gen, clock, VIOLATION_MODE.multiplier, AllDraws) :
          /\ gen' = q
          /\ appliance_events' = [appliance_events EXCEPT ![ProjectOf(q.idx)] = q.event]
          /\ last_appliance_check' =
                [last_appliance_check EXCEPT ![ProjectOf(q.idx)] = q.last_check]
          /\ consumption_trends' =
                [consumption_trends EXCEPT ![ProjectOf(q.idx)] = q.trend]
    /\ UNCHANGED << ctlFrame, clockVars, passes, weather_cache, passVars,
                    weatherCalls, calls >>

\* lines 559-568: the net consumption, the history entry, the return
GenEnd ==
    /\ gen.phase = "end"
    /\ StorePass(gen)
    /\ gen' = [gen EXCEPT !.phase = "idle"]
    /\ UNCHANGED << ctlFrame, clockVars, passes, weatherCalls, calls >>

\* the clock advances by one of the steps of S
Tick(S) ==
    /\ ticks < MaxTicks
    /\ \E d \in S : clock' = clock + d
    /\ ticks' = ticks + 1
    /\ UNCHANGED << ctlFrame, utcShift, passes, cacheVars, passVars, gen,
                    weatherCalls, calls >>

GenTick == Tick(GenTickSteps)

\* the modes with which passes return
ReturningModes == { v \in ViolationModes : ~(v.enabled /\ v.multiplier = 0) }
                     \cup { [enabled |-> TRUE, multiplier |-> 150] }

InitGen ==
    /\ MAX_MESSAGES = 0
    /\ VIOLATION_MODE \in ViolationModes \cup ReturningModes
    /\ InitControl
    /\ \E t0 \in StartTimes, shift \in UtcShifts, i \in Workers :
          InitData(t0, shift, i)

NextGen == GenBegin \/ GenOutput \/ GenMeter \/ GenEnd \/ GenTick

SpecGen == InitGen /\ [][NextGen]_vars

(***************************************************************************)
(* The reading history over a long run: one controller makes pass after    *)
(* pass, one second apart, until the deque has been full for a while.      *)
(***************************************************************************)
\* most passes of the long run; more than HistoryMaxLen
MaxPushes == 302

\* a whole pass of the controller
HistPass ==
    /\ returned[gen.idx] < MaxPushes
    /\ ticks = returned[gen.idx]
    /\ GenerateData(gen.idx, FixedDraws)
    /\ UNCHANGED << cfgVars, ctlVars, clockVars, gen, weatherCalls, calls >>

\* time.sleep between two passes (lines 607-608), the shortest sleep
HistSleep ==
    /\ ticks < returned[gen.idx]
    /\ clock' = clock + 1
    /\ ticks' = ticks + 1
    /\ UNCHANGED << ctlFrame, utcShift, passes, cacheVars, passVars, gen,
                    weatherCalls, calls >>

InitHistory ==
    /\ MAX_MESSAGES = 0
    /\ VIOLATION_MODE \in ReturningModes
    /\ InitControl
    /\ \E t0 \in ConcurrentStartTimes, i \in Workers : InitData(t0, 0, i)

NextHistory == HistPass \/ HistSleep

SpecHistory == InitHistory /\ [][NextHistory]_vars

(***************************************************************************)
(* update_weather_pattern called directly, at instants of any distance     *)
(***************************************************************************)
\* seconds by which the clock advances between two weather calls
WeatherTickSteps == {1, 300, 301, 901}

\* most advances of the clock between weather calls
MaxWeatherTicks == 3

\* update_weather_pattern(project_id) for the project of the controller; the
\* call is recorded with the cache it left and the value it returned
WeatherCall ==
    /\ \E w \in update_weather_pattern(weather_cache[ProjectOf(gen.idx)], clock,
                                       AllDraws) :
          /\ weather_cache' = [weather_cache EXCEPT ![ProjectOf(gen.idx)] = w.cache]
          /\ weatherCalls' =
                 (IF weatherCalls = << >> THEN << >> ELSE << weatherCalls[Len(weatherCalls)] >>)
                 \o << [ time |-> clock, cache |-> w.cache, fluct |-> w.fluct,
                         ret |-> w.ret, target |-> w.target ] >>
    /\ UNCHANGED << ctlFrame, clockVars, passes, appliance_events,
                    last_appliance_check, consumption_trends, passVars, gen,
                    calls >>

WeatherTick ==
    /\ ticks < MaxWeatherTicks
    /\ \E d \in WeatherTickSteps : clock' = clock + d
    /\ ticks' = ticks + 1
    /\ UNCHANGED << ctlFrame, utcShift, passes, cacheVars, passVars, gen,
                    weatherCalls, calls >>

InitWeather ==
    /\ MAX_MESSAGES = 0
    /\ VIOLATION_MODE = [enabled |-> FALSE, multiplier |-> 150]
    /\ InitControl
    /\ \E t0 \in ConcurrentStartTimes, i \in Workers : InitData(t0, 0, i)

NextWeather == WeatherCall \/ WeatherTick

SpecWeather == InitWeather /\ [][NextWeather]_vars

(***************************************************************************)
(* The DER generators called directly: any capacity of the configuration,  *)
(* any SOC, at instants spread over the day and the week.                  *)
(***************************************************************************)
\* start instants: Monday 00:00:05, Monday 12:59:59, Saturday 06:59:59
DerStartTimes == {5, 46799, 457199}

\* seconds by which the clock advances between two generator calls
DerTickSteps == {1, 3600, 18000}

\* most advances of the clock between generator calls
MaxDerTicks == 3

\* values of current_soc handed to generate_battery_output, in tenths of a
\* percent: below, at and above the protection limit of 10
SocValues == {0, 99, 100, 500, 1000}

\* the DERs of type ty of a controller
DersOfType(controller_index, ty) ==
    { Ders(controller_index)[k] : k \in { j \in 1..Len(Ders(controller_index)) :
                                            Ders(controller_index)[j].type = ty } }

\* generate_solar_output(capacity, controller_index) for a solar DER of the
\* controller; the call is recorded with the solar factor and the result
SolarCall ==
    /\ \E der \in DersOfType(gen.idx, "solar") :
          \E o \in generate_solar_output(der.nameplate_capacity, gen.idx,
                                         weather_cache[ProjectOf(gen.idx)], clock,
                                         AllDraws) :
             /\ weather_cache' = [weather_cache EXCEPT ![ProjectOf(gen.idx)] = o.cache]
             /\ calls' = << [ fn |-> "generate_solar_output", time |-> clock,
                              capacity |-> der.nameplate_capacity,
                              factor |-> get_nb_seasonal_factors(
                                            clock, Location(gen.idx)).solar,
                              out |-> o.out ] >>
    /\ UNCHANGED << ctlFrame, clockVars, passes, appliance_events,
                    last_appliance_check, consumption_trends, passVars, gen,
                    weatherCalls >>

\* generate_battery_output(capacity, current_soc, controller_index) for a
\* battery DER of the controller, with any SOC and with the SOC that lines
\* 483-514 compute at this instant (data_soc)
BatteryCall ==
    /\ \E der \in DersOfType(gen.idx, "battery") :
          \E soc \in SocValues \cup {current_soc_of(der, clock + utcShift)} :
             calls' = << [ fn |-> "generate_battery_output", time |-> clock,
                           capacity |-> der.nameplate_capacity, soc |-> soc,
                           data_soc |-> current_soc_of(der, clock + utcShift),
                           out |-> generate_battery_output(
                                      der.nameplate_capacity, soc, gen.idx, clock) ] >>
    /\ UNCHANGED << ctlFrame, clockVars, passes, cacheVars, passVars, gen,
                    weatherCalls >>

DerTick ==
    /\ ticks < MaxDerTicks
    /\ \E d \in DerTickSteps : clock' = clock + d
    /\ ticks' = ticks + 1
    /\ UNCHANGED << ctlFrame, utcShift, passes, cacheVars, passVars, gen,
                    weatherCalls, calls >>

InitDer ==
    /\ MAX_MESSAGES = 0
    /\ VIOLATION_MODE = [enabled |-> FALSE, multiplier |-> 150]
    /\ InitControl
    /\ \E t0 \in DerStartTimes, shift \in UtcShifts, i \in Workers :
          InitData(t0, shift, i)

NextDer == SolarCall \/ BatteryCall \/ DerTick

SpecDer == InitDer /\ [][NextDer]_vars

(***************************************************************************)
(* get_nb_seasonal_factors called directly around the hour boundaries of   *)
(* weekdays and weekend days, for the location of any controller.          *)
(***************************************************************************)
\* start instants: minute 59 of every hour of Monday, Friday, Saturday and
\* Sunday
FactorStartTimes ==
    { d * 86400 + h * 3600 + 59 * 60 : d \in {0, 4, 5, 6}, h \in 0..23 }

\* seconds by which the clock advances between two calls
FactorTickSteps == {1, 60}

\* most advances of the clock between calls
MaxFactorTicks == 2

\* factors = get_nb_seasonal_factors(controller['location']); the last two
\* calls are recorded with the usage factor they returned
FactorsCall ==
    /\ calls' =
          (IF calls = << >> THEN << >> ELSE << calls[Len(calls)] >>)
          \o << [ fn |-> "get_nb_seasonal_factors", time |-> clock,
                  location |-> Location(gen.idx),
                  usage |-> get_nb_seasonal_factors(clock, Location(gen.idx)).usage ] >>
    /\ UNCHANGED << ctlFrame, clockVars, passes, cacheVars, passVars, gen,
                    weatherCalls >>

FactorsTick ==
    /\ ticks < MaxFactorTicks
    /\ \E d \in FactorTickSteps : clock' = clock + d
    /\ ticks' = ticks + 1
    /\ UNCHANGED << ctlFrame, utcShift, passes, cacheVars, passVars, gen,
                    weatherCalls, calls >>

InitFactors ==
    /\ MAX_MESSAGES = 0
    /\ VIOLATION_MODE = [enabled |-> FALSE, multiplier |-> 150]
    /\ InitControl
    /\ \E t0 \in FactorStartTimes, i \in Workers : InitData(t0, 0, i)

NextFactors == FactorsCall \/ FactorsTick

SpecFactors == InitFactors /\ [][NextFactors]_vars

(***************************************************************************)
(* check_appliance_events called directly, at instants of any distance     *)
(***************************************************************************)
\* seconds by which the clock advances between two appliance checks
ApplianceTickSteps == {1, 29, 30, 60}

\* most advances of the clock between appliance checks
MaxApplianceTicks == 3

\* check_appliance_events(project_id) for the project of the controller; the
\* call is recorded with the event record and the check time before and
\* after it and the value it returned
ApplianceCall ==
    /\ LET p == ProjectOf(gen.idx)
       IN  \E c \in check_appliance_events(appliance_events[p],
                                           last_appliance_check[p], clock, AllDraws) :
              /\ appliance_events' = [appliance_events EXCEPT ![p] = c.event]
              /\ last_appliance_check' =
                     [last_appliance_check EXCEPT ![p] = c.last_check]
              /\ calls' = << [ fn |-> "check_appliance_events", time |-> clock,
                               event |-> appliance_events[p],
                               last_check |-> last_appliance_check[p],
                               event_after |-> c.event,
                               last_check_after |-> c.last_check,
                               ret |-> c.ret ] >>
    /\ UNCHANGED << ctlFrame, clockVars, passes, weather_cache,
                    consumption_trends, passVars, gen, weatherCalls >>

ApplianceTick ==
    /\ ticks < MaxApplianceTicks
    /\ \E d \in ApplianceTickSteps : clock' = clock + d
    /\ ticks' = ticks + 1
    /\ UNCHANGED << ctlFrame, utcShift, passes, cacheVars, passVars, gen,
                    weatherCalls, calls >>

InitAppliance ==
    /\ MAX_MESSAGES = 0
    /\ VIOLATION_MODE = [enabled |-> FALSE, multiplier |-> 150]
    /\ InitControl
    /\ \E t0 \in ConcurrentStartTimes, i \in Workers : InitData(t0, 0, i)

NextAppliance == ApplianceCall \/ ApplianceTick

SpecAppliance == InitAppliance /\ [][NextAppliance]_vars

(***************************************************************************)
(* update_consumption_trend called directly, at instants of any distance   *)
(***************************************************************************)
\* seconds by which the clock advances between two trend calls
TrendTickSteps == {1, 599, 600, 1800}

\* most advances of the clock between trend calls
MaxTrendTicks == 3

\* update_consumption_trend(project_id) for the project of the controller;
\* the call is recorded with the cache entry before and after it, the target
\* it drew and the value it returned
TrendCall ==
    /\ LET p == ProjectOf(gen.idx)
       IN  \E c \in update_consumption_trend(consumption_trends[p], clock, AllDraws) :
              /\ consumption_trends' = [consumption_trends EXCEPT ![p] = c.trend]
              /\ calls' = << [ fn |-> "update_consumption_trend", time |-> clock,
                               trend |-> consumption_trends[p],
                               trend_after |-> c.trend,
                               target |-> c.target, ret |-> c.ret ] >>
    /\ UNCHANGED << ctlFrame, clockVars, passes, weather_cache, appliance_events,
                    last_appliance_check, passVars, gen, weatherCalls >>

TrendTick ==
    /\ ticks < MaxTrendTicks
    /\ \E d \in TrendTickSteps : clock' = clock + d
    /\ ticks' = ticks + 1
    /\ UNCHANGED << ctlFrame, utcShift, passes, cacheVars, passVars, gen,
                    weatherCalls, calls >>

InitTrend ==
    /\ MAX_MESSAGES = 0
    /\ VIOLATION_MODE = [enabled |-> FALSE, multiplier |-> 150]
    /\ InitControl
    /\ \E t0 \in ConcurrentStartTimes, i \in Workers : InitData(t0, 0, i)

NextTrend == TrendCall \/ TrendTick

SpecTrend == InitTrend /\ [][NextTrend]_vars

(***************************************************************************)
(* generate_ev_output called directly at any minute of a weekday and of a  *)
(* weekend day                                                             *)
(***************************************************************************)
\* start instants: second 0 of every minute of Monday and of Saturday
EvStartTimes ==
    { d * 86400 + h * 3600 + m * 60 : d \in {0, 5}, h \in 0..23, m \in 0..59 }

\* seconds by which the clock advances between two calls
EvTickSteps == {1, 60}

\* most advances of the clock between calls
MaxEvTicks == 2

\* generate_ev_output(capacity, controller_index) for an EV DER of the
\* controller; the last two calls are recorded with the connectivity
\* decision and the result
EvCall ==
    /\ \E der \in DersOfType(gen.idx, "ev") :
          calls' =
             (IF calls = << >> THEN << >> ELSE << calls[Len(calls)] >>)
             \o << [ fn |-> "generate_ev_output", time |-> clock,
                     capacity |-> der.nameplate_capacity,
                     is_connected |-> ev_is_connected(gen.idx, clock),
                     out |-> generate_ev_output(der.nameplate_capacity,
                                                gen.idx, clock) ] >>
    /\ UNCHANGED << ctlFrame, clockVars, passes, cacheVars, passVars, gen,
                    weatherCalls >>

EvTick ==
    /\ ticks < MaxEvTicks
    /\ \E d \in EvTickSteps : clock' = clock + d
    /\ ticks' = ticks + 1
    /\ UNCHANGED << ctlFrame, utcShift, passes, cacheVars, passVars, gen,
                    weatherCalls, calls >>

InitEv ==
    /\ MAX_MESSAGES = 0
    /\ VIOLATION_MODE = [enabled |-> FALSE, multiplier |-> 150]
    /\ InitControl
    /\ \E t0 \in EvStartTimes, i \in Workers : InitData(t0, 0, i)

NextEv == EvCall \/ EvTick

SpecEv == InitEv /\ [][NextEv]_vars

(***************************************************************************)
(* The end-to-end scenario: generate_data for a controller with baseline   *)
(* 18, threshold 15 (the first of CONTROLLERS, at Fredericton) whose DER   *)
(* list is one solar DER of capacity 8, started on a weekday at 13:00,     *)
(* without and with violation mode at multiplier 1.5.                      *)
(***************************************************************************)
\* controller['ders'] of the scenario: the solar DER of the first controller
ScenarioDers == SelectSeq(Ders(1), LAMBDA der : der.type = "solar")

\* the violation settings of the scenario
ScenarioModes ==
    { [enabled |-> FALSE, multiplier |-> 150],
      [enabled |-> TRUE,  multiplier |-> 150] }

\* seconds by which the clock advances between two passes of the scenario
ScenarioTickSteps == {1, 30, 3600}

\* most advances of the clock in the scenario
MaxScenarioTicks == 2

\* the draws of the scenario: both outcomes of every test on a draw, and the
\* extremes of the weather pattern and of the event magnitude
ScenarioDraws ==
    [ interval |-> {300}, gauss |-> {300, 1700}, fluct |-> {0, 999},
      start |-> {149, 150}, duration |-> {60}, tier |-> {0, 950},
      unif |-> {1000}, minutes |-> {10} ]

\* generate_data (lines 468-568) for the scenario controller: the solar
\* output, the meter value, the record, the net consumption and the history
\* entry; the pass is recorded with the locals of calculate_power_meter, the
\* instant of the first pass and the violation states applied so far; two
\* passes are at least the shortest sleep of lines 607-608 apart
ScenarioPass ==
    /\ IF calls = << >> THEN TRUE ELSE calls[1].time < clock
    /\ LET p == ProjectOf(gen.idx)
           der == ScenarioDers[1]
           current_time == clock + utcShift
           apply_violation == VIOLATION_MODE.enabled
       IN  \E o \in generate_solar_output(der.nameplate_capacity, gen.idx,
                                          weather_cache[p], clock, ScenarioDraws) :
           \E m \in calculate_power_meter(CONTROLLERS[gen.idx].baseline, o.out,
                                          gen.idx, apply_violation,
                                          VIOLATION_MODE.multiplier,
                                          consumption_trends[p], appliance_events[p],
                                          last_appliance_check[p], clock, ScenarioDraws) :
              LET data == << DerRecord(gen.idx, der, current_time, o.out, m.pm, 0) >>
                  entry == [time |-> current_time, net |-> net_consumption(data)]
              IN  /\ ~m.raised
                  /\ weather_cache' = [weather_cache EXCEPT ![p] = o.cache]
                  /\ appliance_events' = [appliance_events EXCEPT ![p] = m.event]
                  /\ last_appliance_check' =
                         [last_appliance_check EXCEPT ![p] = m.last_check]
                  /\ consumption_trends' = [consumption_trends EXCEPT ![p] = m.trend]
                  /\ readings_history' =
                         [readings_history EXCEPT ![p] = DequeAppend(@, entry)]
                  /\ pushed' = [pushed EXCEPT ![p] = Append(@, entry)]
                  /\ payload' = [payload EXCEPT ![gen.idx] = data]
                  /\ returned' = [returned EXCEPT ![gen.idx] = @ + 1]
                  /\ calls' = << [ fn |-> "generate_data", time |-> clock,
                                   apply_violation |-> apply_violation,
                                   raw_output |-> o.out,
                                   adjusted_load |-> m.adjusted_load,
                                   noise_factor |-> m.noise_factor,
                                   effective_der_output |-> m.effective_der_output,
                                   event_factor |-> m.event_factor,
                                   data |-> data,
                                   first |-> IF calls = << >> THEN clock
                                             ELSE calls[1].first,
                                   states |-> IF calls = << >> THEN {apply_violation}
                                              ELSE calls[1].states
                                                     \cup {apply_violation} ] >>
    /\ passes' = [passes EXCEPT ![gen.idx] = @ + 1]
    /\ UNCHANGED << cfgVars, ctlVars, cacheAccess, clockVars, gen, weatherCalls >>

ScenarioTick ==
    /\ ticks < MaxScenarioTicks
    /\ \E d \in ScenarioTickSteps : clock' = clock + d
    /\ ticks' = ticks + 1
    /\ UNCHANGED << ctlFrame, utcShift, passes, cacheVars, passVars, gen,
                    weatherCalls, calls >>

InitScenario ==
    /\ MAX_MESSAGES = 0
    /\ VIOLATION_MODE \in ScenarioModes
    /\ InitControl
    /\ \E t0 \in ConcurrentStartTimes : InitData(t0, 0, 1)

NextScenario == ScenarioPass \/ ScenarioTick

SpecScenario == InitScenario /\ [][NextScenario]_vars

(***************************************************************************)
(* Properties                                                              *)
(***************************************************************************)
\* workers between a publish that returned rc == 0 and the end of the
\* increment it is followed by
InFlight == { w \in Workers : pc[w] \in {"inc_lock", "inc_read", "inc_write"} }

\* C1: when MAX_MESSAGES is greater than 0, total_messages never exceeds
\* MAX_MESSAGES, whatever the interleaving of the workers.
C1_LimitNeverExceeded ==
    MAX_MESSAGES > 0 => total_messages <= MAX_MESSAGES

\* C2 as stated: every read and every write of total_messages by any thread
\* is made with messages_lock held, and total_messages equals, in every
\* state, the number of publishes that returned rc == 0.
C2_EveryAccessLocked ==
    /\ unlocked = {}
    /\ total_messages = published

\* C2 as amended: every write of total_messages and every read of it by a
\* worker is made with messages_lock held, the only access without the lock
\* being the polling read of main; no increment is lost: total_messages is
\* the number of publishes that returned rc == 0 less those whose worker has
\* not completed its increment yet.
C2_WorkerAccessLocked ==
    /\ unlocked \subseteq { <<MainThread, "read">> }
    /\ total_messages = published - Cardinality(InFlight)

\* C2 witness: two increments are done, a third publish awaits its
\* increment, and main has polled the counter
C2_Witness ==
    /\ total_messages = 2
    /\ published = 3
    /\ <<MainThread, "read">> \in unlocked

\* all the cache entries of project p
CachesOf(p) ==
    << weather_cache[p], appliance_events[p], last_appliance_check[p],
       consumption_trends[p], readings_history[p] >>

\* C6: the weather, appliance-event, last-check, trend and history entries of
\* a project are read and written only by the worker that runs the project's
\* controller: a pass of worker w leaves the entries of every other project
\* as they are, and no worker is ever recorded at another project's entries.
C6_SingleWriter ==
    /\ [](\A i \in Workers : cacheAccess[CONTROLLERS[i].project_id] \subseteq {i})
    /\ [][\A w \in Workers :
            passes'[w] # passes[w] =>
               \A i \in Workers \ {w} :
                  CachesOf(CONTROLLERS[i].project_id)'
                     = CachesOf(CONTROLLERS[i].project_id)]_vars

\* C6 witness: every worker has made a pass that changed the entries of its
\* own project
C6_Witness ==
    \A i \in Workers :
       /\ cacheAccess[CONTROLLERS[i].project_id] = {i}
       /\ Len(readings_history[CONTROLLERS[i].project_id]) = 1
       /\ weather_cache[CONTROLLERS[i].project_id].last_update # None

\* C7: once the stop flag is set every connected worker completes its pass,
\* disconnects and exits before the process ends: when main has returned,
\* every worker that had connected is done.
C7_WorkersExitBeforeProcessEnds ==
    mainPc = "exited" =>
       \A w \in Workers : connectRc[w] = 0 => pc[w] = "done"

\* C8 as stated: after a connect failure or a publish failure the worker
\* keeps running (it has not ended), and a failed publish does not increment
\* the counter.
C8_TransportErrorsKeepWorker ==
    /\ \A w \in Workers : connectRc[w] > 0 => pc[w] # "done"
    /\ total_messages <= published

\* C8 as amended: a publish failure is not fatal: the worker leaves the
\* counter alone and returns to the loop test, the data of a pass is handed to
\* publish at most once, and the counter never exceeds the publishes that
\* returned rc == 0; a connect failure ends that worker before any pass and
\* leaves the stop flag and the other workers as they are.
C8_PublishFailureNotFatal ==
    /\ [](/\ total_messages <= published
          /\ \A w \in Workers : pc[w] = "publish" => pubPass[w] < passes[w])
    /\ [][\A w \in Workers :
            /\ (pc[w] = "publish" /\ pubPass'[w] # pubPass[w]
                  /\ published' = published)
                 => /\ pc'[w] = "loop"
                    /\ total_messages' = total_messages
                    /\ pubPass'[w] = passes[w]
            /\ (pc[w] = "connect" /\ connectRc'[w] > 0)
                 => /\ pc'[w] = "done"
                    /\ passes[w] = 0
                    /\ stop_event' = stop_event
                    /\ \A v \in Workers \ {w} : pc'[v] = pc[v]]_vars

\* C8 witness: a worker whose first publish failed has made a second pass and
\* is about to publish its data, while another worker has ended on a connect
\* failure
C8_Witness ==
    \E w, v \in Workers :
       /\ pc[w] = "publish" /\ passes[w] = 2 /\ pubPass[w] = 1
       /\ published = 0 /\ total_messages = 0
       /\ connectRc[v] > 0 /\ pc[v] = "done"

\* C9: a generation error in worker w is caught at the boundary of w: w
\* leaves its loop for the disconnect and then exits, the stop flag keeps its
\* value, and no other worker and not main is moved by the error.
C9_GenerationErrorIsolated ==
    [][\A w \in Workers :
         /\ (passes'[w] # passes[w] /\ returned'[w] = returned[w])
              => /\ pc'[w] = "finally"
                 /\ stop_event' = stop_event
                 /\ mainPc' = mainPc
                 /\ total_messages' = total_messages
                 /\ \A v \in Workers \ {w} : pc'[v] = pc[v]
         /\ (pc[w] = "finally" /\ pc'[w] # "finally") => pc'[w] = "done"]_vars

\* C9 witness: a worker has ended after the error of its first pass, the stop
\* flag is not set and another worker is inside its loop
C9_Witness ==
    \E w, v \in Workers :
       /\ pc[w] = "done" /\ connectRc[w] = 0
       /\ passes[w] = 1 /\ returned[w] = 0
       /\ ~stop_event
       /\ pc[v] = "generate"

\* C3: the history of a project holds at most 300 entries and is, in
\* generation order, the most recent min(300, n) of the n entries appended to
\* it: a push to a full history drops exactly the oldest entry.
C3_HistoryIsRecentWindow ==
    \A p \in ProjectIds :
       LET n == Len(pushed[p])
           m == IF n < 300 THEN n ELSE 300
       IN  /\ Len(readings_history[p]) <= 300
           /\ readings_history[p] = SubSeq(pushed[p], n - m + 1, n)

\* C3 witness: more than 300 entries were appended and the history is full
C3_Witness ==
    \E p \in ProjectIds :
       /\ Len(pushed[p]) > 300
       /\ Len(readings_history[p]) = 300
       /\ readings_history[p][1] = pushed[p][Len(pushed[p]) - 299]

\* the sum of power_meter_measurement - current_output over the first n
\* records of data
RECURSIVE SumNet(_, _)
SumNet(data, n) ==
    IF n = 0 THEN 0
    ELSE SumNet(data, n - 1)
         + data[n].power_meter_measurement - data[n].current_output

\* C4: every pass that returns appends exactly one entry to the history of
\* its project, and the net consumption of that entry is the sum, over the
\* records the pass returned, of power_meter_measurement - current_output.
C4_NetIsSumOfReturnedRecords ==
    \A w \in Workers :
       LET p == CONTROLLERS[w].project_id
       IN  /\ Len(pushed[p]) = returned[w]
           /\ returned[w] > 0 =>
                 /\ pushed[p][returned[w]].net = SumNet(payload[w], Len(payload[w]))
                 /\ Len(payload[w]) = Len(CONTROLLERS[w].ders)
                 /\ pushed[p][returned[w]] = readings_history[p][Len(readings_history[p])]

\* C4 witness: a second pass has returned records with a positive output and
\* a positive meter value
C4_Witness ==
    \E w \in Workers :
       /\ returned[w] = 2
       /\ \E k \in 1..Len(payload[w]) :
             /\ payload[w][k].current_output > 0
             /\ payload[w][k].power_meter_measurement > 0

\* C5: within one pass the clock is read once, so every quantity of the pass
\* is derived from the same instant.
C5_OneClockReadingPerPass ==
    Cardinality(gen.reads) <= 1

\* C10: of two update_weather_pattern calls on a project, the second made at
\* most 300 s after the update the first left stored, the second does not
\* re-sample: it leaves pattern and last_update as they are, and both
\* returned values are that pattern times a jitter factor in [0.98, 1.02].
C10_WeatherIdempotentInWindow ==
    Len(weatherCalls) = 2 =>
       LET c1 == weatherCalls[1]
           c2 == weatherCalls[2]
       IN  (c2.time - c1.cache.last_update <= 300) =>
              /\ c2.cache = c1.cache
              /\ c1.ret = c1.cache.pattern * c1.fluct
              /\ c2.ret = c1.cache.pattern * c2.fluct
              /\ c1.fluct \in 98000..102000
              /\ c2.fluct \in 98000..102000

\* C10 witness: the second call comes exactly 300 s after the stored update
\* and returns another value than the first
C10_Witness ==
    /\ Len(weatherCalls) = 2
    /\ weatherCalls[2].time - weatherCalls[1].cache.last_update = 300
    /\ weatherCalls[2].ret # weatherCalls[1].ret
    /\ weatherCalls[1].cache.pattern # 1000

\* the last direct call of function fn, if the last call was of fn
LastCalls(fn) == { calls[k] : k \in { j \in 1..Len(calls) : calls[j].fn = fn } }

\* C11: generate_solar_output returns 0 when the solar factor is <= 0, and
\* otherwise a value that is >= 0 and <= 1.1 x capacity (outputs in hundredths
\* of a kW).
C11_SolarOutputBounded ==
    \A c \in LastCalls("generate_solar_output") :
       IF c.factor <= 0 THEN c.out = 0
       ELSE c.out >= 0 /\ c.out <= 110 * c.capacity

\* C12: generate_battery_output returns exactly 0 when SOC < 10 and otherwise
\* a non-negative value that never exceeds 0.8 x capacity; the SOC that
\* generate_data computes for a battery is within [10, 95].
C12_BatteryOutputBounded ==
    \A c \in LastCalls("generate_battery_output") :
       /\ c.soc < 100 => c.out = 0
       /\ c.soc >= 100 => c.out >= 0 /\ c.out <= 80 * c.capacity
       /\ c.data_soc >= 100 /\ c.data_soc <= 950

\* C12 witness: a battery was called with an SOC just below 10 and returned 0,
\* at an instant where the same battery discharges with the SOC of the pass
C12_Witness ==
    \E c \in LastCalls("generate_battery_output") :
       /\ c.soc = 99 /\ c.out = 0
       /\ generate_battery_output(c.capacity, c.data_soc, gen.idx, c.time) > 0

\* C13: in the scenario without violation mode, on a weekday at hour 13, a
\* pass yields solar output > 0, power_meter_measurement >= 0 and net
\* consumption (power_meter_measurement - current_output) <= baseline.
C13_ScenarioNetWithinBaseline ==
    \A c \in LastCalls("generate_data") :
       (~c.apply_violation /\ Weekday(c.time) < 5 /\ Hour(c.time) = 13) =>
          LET r == c.data[1]
          IN  /\ r.current_output > 0
              /\ r.power_meter_measurement >= 0
              /\ r.power_meter_measurement - r.current_output <= 100 * r.baseline

\* C14: with violation mode enabled and multiplier m, the meter value of a
\* record is max(0, adjusted_load x noise - raw / m) for the raw DER output,
\* the record's current_output is the raw output, and for m = 1.5 the
\* effective output is raw / 1.5 (to the rounding of the unit, 1e-3 kW).
C14_ViolationDividesDerOutput ==
    \A c \in LastCalls("generate_data") :
       c.apply_violation =>
          LET r == c.data[1]
              m == VIOLATION_MODE.multiplier
              effective == RoundDiv(r.current_output * 1000, m)
          IN  /\ r.current_output = c.raw_output
              /\ c.effective_der_output = effective
              /\ r.power_meter_measurement =
                    RoundDiv(Max(0, RoundDiv(c.adjusted_load * c.noise_factor, 100)
                                      - effective), 10)
              /\ m = 150 =>
                    (3 * c.effective_der_output - 20 * r.current_output) \in -1..1

\* C14 witness: a violation-mode pass at multiplier 1.5 with a positive raw
\* output, a positive meter value and an appliance event in the load
C14_Witness ==
    \E c \in LastCalls("generate_data") :
       /\ c.apply_violation /\ VIOLATION_MODE.multiplier = 150
       /\ c.raw_output > 0
       /\ c.data[1].power_meter_measurement > 0
       /\ c.effective_der_output < 10 * c.raw_output
       /\ c.event_factor > 100

\* C16: with violation mode enabled the state applied by the passes
\* alternates between COMPLIANT and VIOLATING as the switch interval
\* elapses: a run whose passes span an hour has applied both states.
C16_ViolationStateAlternates ==
    \A c \in LastCalls("generate_data") :
       (VIOLATION_MODE.enabled /\ c.time - c.first >= 3600) =>
          c.states = {TRUE, FALSE}

\* the largest difference between adjacent-hour entries of a usage table, in
\* 1/10000
MaxHourDelta(is_weekend) ==
    LET tab == hourly_factors(is_weekend)
        delta(h) == IF tab[(h + 1) % 24] >= tab[h]
                    THEN tab[(h + 1) % 24] - tab[h]
                    ELSE tab[h] - tab[(h + 1) % 24]
    IN  100 * (CHOOSE d \in { delta(h) : h \in 0..23 } :
                  \A h \in 0..23 : delta(h) <= d)

\* C15: the usage factor at minute 59 of hour h and the usage factor at
\* minute 0 of hour h+1 (23:59 to 00:00 included) differ by no more than the
\* largest difference between adjacent-hour entries of the usage table in
\* force, for every location and for the weekday and the weekend table.
C15_UsageContinuousAcrossHours ==
    Len(calls) = 2 =>
       LET c1 == calls[1]
           c2 == calls[2]
       IN  (/\ c1.fn = "get_nb_seasonal_factors" /\ c2.fn = c1.fn
            /\ Minute(c1.time) = 59 /\ Minute(c2.time) = 0
            /\ c2.time - c1.time \in 1..60) =>
              /\ c2.usage - c1.usage <= MaxHourDelta(Weekday(c1.time) >= 5)
              /\ c1.usage - c2.usage <= MaxHourDelta(Weekday(c1.time) >= 5)

\* C15 witness: the factor was read at 06:59 and at 07:00 of a weekday, the
\* two values differ, and the first was blended toward the next hour
C15_Witness ==
    /\ Len(calls) = 2
    /\ Hour(calls[1].time) = 6 /\ Minute(calls[1].time) = 59
    /\ Hour(calls[2].time) = 7 /\ Minute(calls[2].time) = 0
    /\ Weekday(calls[1].time) < 5
    /\ calls[1].usage > calls[2].usage
    /\ calls[1].usage < 100 * base_hourly_factors[7] * location_factor(calls[1].location)

\* C17: in a pass that returns, update_weather_pattern,
\* check_appliance_events and update_consumption_trend were each invoked
\* exactly once, whatever the DERs of the project, and all records of the
\* pass were computed from the same trend and appliance factors.
C17_SlowStepsOncePerPass ==
    gen.phase = "end" =>
       /\ gen.invoked.weather = 1
       /\ gen.invoked.events = 1
       /\ gen.invoked.trend = 1
       /\ \A i, j \in 1..Len(gen.slow) : gen.slow[i] = gen.slow[j]

\* C18: a weather refresh with a prior update moves the stored pattern from
\* the old pattern toward the drawn target by the fraction elapsed / 180
\* capped at 1, and the stored pattern does not snap in that one refresh to a
\* target that differs from the old pattern.
C18_WeatherRefreshIsGradual ==
    Len(weatherCalls) = 2 =>
       LET old == weatherCalls[1].cache
           c == weatherCalls[2]
           blend == Min(180, c.time - old.last_update)
       IN  (c.target # None /\ old.last_update # None) =>
              /\ c.cache.pattern =
                    RoundDiv(old.pattern * (180 - blend) + c.target * blend, 180)
              /\ c.target # old.pattern => c.cache.pattern # c.target

C20_ApplianceChecksRateLimited ==
    \A c \in LastCalls("check_appliance_events") :
       /\ c.time - c.last_check < 30 =>
             /\ c.event_after = c.event
             /\ c.last_check_after = c.last_check
             /\ c.ret \in {c.event.magnitude, 100}
             /\ ~c.event.active => c.ret = 100
             /\ (c.event.active /\ c.event.end_time > c.time) =>
                   c.ret = c.event.magnitude
       /\ (c.event_after # c.event \/ c.last_check_after # c.last_check) =>
             /\ c.time - c.last_check >= 30
             /\ c.last_check_after = c.time

\* C20 witness: a call 29 s after a check that started an event returned the
\* magnitude of that event and changed nothing
C20_Witness ==
    \E c \in LastCalls("check_appliance_events") :
       /\ c.time - c.last_check = 29
       /\ c.event.active /\ c.event.end_time > c.time
       /\ c.ret = c.event.magnitude /\ c.ret > 100
       /\ appliance_events[ProjectOf(gen.idx)] = c.event
       /\ last_appliance_check[ProjectOf(gen.idx)] = c.last_check

\* C21: the stored trend changes only in a call made at or after
\* next_change; a change sets next_change 10 to 30 minutes ahead and moves the
\* trend 30% of the way toward a target in [0.92, 1.08]; the trend stays
\* within [0.85, 1.15]; a call before next_change returns the stored trend
\* and changes nothing (the trend in 1/10000, to the rounding of that unit).
C21_TrendMovesGradually ==
    \A c \in LastCalls("update_consumption_trend") :
       /\ c.time < c.trend.next_change =>
             /\ c.trend_after = c.trend
             /\ c.target = None
             /\ c.ret = c.trend.trend
       /\ c.time >= c.trend.next_change =>
             /\ c.trend_after.next_change - c.time \in 600..1800
             /\ c.target \in 9200..10800
             /\ (10 * (c.trend_after.trend - c.trend.trend)
                    - 3 * (c.target - c.trend.trend)) \in -5..5
             /\ c.ret = c.trend_after.trend
       /\ c.trend_after.trend \in 8500..11500

\* C21 witness: a second change, half an hour after the first, has moved a
\* trend that the first change had raised part of the way down to the lowest
\* target
C21_Witness ==
    \E c \in LastCalls("update_consumption_trend") :
       /\ c.trend.trend > 10000
       /\ c.target = 9200
       /\ c.trend_after.trend < c.trend.trend
       /\ c.trend_after.trend > c.target
       /\ c.trend_after.next_change = c.time + 600

\* the state satisfies the parts of C22 that do not depend on where the peak
\* bands end: a call with the EV not connected returned 0, two calls in the
\* same minute of the same day made the same connectivity decision, and a
\* call with the EV connected returned 15-25% of the capacity if peak(time)
\* and 5-10% of it otherwise (the output in hundredths of a kW)
EvOutputInBands(peak(_)) ==
    /\ \A c \in LastCalls("generate_ev_output") :
          /\ ~c.is_connected => c.out = 0
          /\ (c.is_connected /\ peak(c.time)) =>
                (15 * c.capacity <= c.out /\ c.out <= 25 * c.capacity)
          /\ (c.is_connected /\ ~peak(c.time)) =>
                (5 * c.capacity <= c.out /\ c.out <= 10 * c.capacity)
    /\ \A c1, c2 \in LastCalls("generate_ev_output") :
          c1.time \div 60 = c2.time \div 60 => c1.is_connected = c2.is_connected

\* the instant lies in 07:00-09:00 or 17:00-20:00, both ends included
InClockBands(t) ==
    \/ (7 * 3600 <= t % 86400 /\ t % 86400 <= 9 * 3600)
    \/ (17 * 3600 <= t % 86400 /\ t % 86400 <= 20 * 3600)

\* the hour of the instant is one of 7, 8, 9, 17, 18, 19, 20
InPeakHours(t) == Hour(t) \in {7, 8, 9, 17, 18, 19, 20}

\* C22 as stated: a connected EV returns 15-25% of capacity at the times
\* in 07:00-09:00 or 17:00-20:00 and 5-10% of capacity at every other time;
\* a disconnected EV returns 0; the connectivity decision is the same for
\* calls in the same minute of the same day.
C22_EvPeakClockBands == EvOutputInBands(InClockBands)

\* C22 amended: a connected EV returns 15-25% of capacity while the hour of
\* the day is 7, 8, 9, 17, 18, 19 or 20 (07:00:00-09:59:59 and
\* 17:00:00-20:59:59) and 5-10% of capacity in every other hour; a
\* disconnected EV returns 0; the connectivity decision is the same for
\* calls in the same minute of the same day.
C22_EvPeakHours == EvOutputInBands(InPeakHours)

\* C22 witness: a connected EV returned more than 15% of its capacity after
\* 20:00, and the call before it, in the same minute, had found it connected
\* as well
C22_Witness ==
    /\ Len(calls) = 2
    /\ calls[2].fn = "generate_ev_output"
    /\ Hour(calls[2].time) = 20 /\ Minute(calls[2].time) > 0
    /\ calls[2].is_connected /\ calls[1].is_connected
    /\ calls[1].time < calls[2].time
    /\ calls[1].time \div 60 = calls[2].time \div 60
    /\ calls[2].out > 15 * calls[2].capacity

\* C24: check_appliance_events returns a factor other than 1.0 only for an
\* event that is active and whose end_time lies after the instant of the call,
\* on the rate-limited path and on the full-check path alike: a magnitude is
\* returned only for an event that neither path treats as ended (the
\* rate-limited path when end_time <= now, the full check when
\* end_time < now); and the call overwrites magnitude or end_time only if no
\* event was active or the active one had ended.
C24_PathsAgreeOnExpiry ==
    \A c \in LastCalls("check_appliance_events") :
       /\ c.ret # 100 =>
             /\ c.event_after.active
             /\ c.ret = c.event_after.magnitude
             /\ c.event_after.end_time > c.time
             /\ ~(c.event_after.end_time < c.time)
       /\ (c.event_after.magnitude # c.event.magnitude
              \/ c.event_after.end_time # c.event.end_time) =>
             (~c.event.active \/ c.event.end_time < c.time)

\* C23, in the form a finite run refutes: with MAX_MESSAGES > 0, while main
\* is in its polling loop with the message count below the limit, some worker
\* has not returned.  Only a worker raises total_messages (line 601) and main
\* leaves the loop of lines 639-640 only when the count reaches the limit, so
\* from a state where every worker has returned main never sets the stop
\* flag and never joins, unless it is interrupted from the keyboard.
C23_MainTerminates ==
    (MAX_MESSAGES > 0 /\ mainPc = "poll" /\ total_messages < MAX_MESSAGES) =>
       \E w \in Workers : pc[w] # "done"

====
